---- MODULE Spec2Model ----
(***************************************************************************)
(* Model of the two clothing-colour detectors of styleup:                  *)
(*   image.py  ColorDetectionApp       analyses the whole image            *)
(*   i2.py     ClothingColorDetector   analyses a centred region (ROI)     *)
(* The state is the state of one running window; its handlers are the     *)
(* actions.  Floating-point values are IEEE-754 doubles, kept as bit       *)
(* strings so that int(height * self.roi_size) truncates what Python       *)
(* truncates.                                                              *)
(***************************************************************************)
EXTENDS Integers, Sequences, FiniteSets, TLC

\* ------------------------------------------------------------------------
\* Bounds of the model
\* ------------------------------------------------------------------------
MaxHeight == 4
MaxWidth == 2
MaxSamples == 3
GridPoints == 4

\* ------------------------------------------------------------------------
\* Python floats: IEEE-754 binary64, round to nearest, ties to even.
\* A double is [sign, mant, exp]: sign * (mant read as a binary number,
\* most significant bit first) * 2^exp; mant = <<>> is zero.
\* ------------------------------------------------------------------------
Precision == 53

\* the bit strings are worked on in limbs of ChunkWidth bits
ChunkWidth == Precision \div 4

RECURSIVE Pow2(_)
Pow2(n) == IF n = 0 THEN 1 ELSE 2 * Pow2(n - 1)

Base == Pow2(ChunkWidth)

Abs(x) == IF x < 0 THEN -x ELSE x

Sign(x) == IF x < 0 THEN -1 ELSE 1

Zeros(n) == [i \in 1..n |-> 0]

\* v < 2^w as w bits
FixedBits(v, w) == [i \in 1..w |-> (v \div Pow2(w - i)) % 2]

RECURSIVE BitsToInt(_)
BitsToInt(bits) ==
    IF bits = <<>> THEN 0
    ELSE 2 * BitsToInt(SubSeq(bits, 1, Len(bits) - 1)) + bits[Len(bits)]

StripZeros(bits) ==
    IF \A i \in 1..Len(bits) : bits[i] = 0 THEN <<>>
    ELSE LET k == CHOOSE i \in 1..Len(bits) :
                      bits[i] = 1 /\ \A j \in 1..(i - 1) : bits[j] = 0
         IN  SubSeq(bits, k, Len(bits))

\* bits + 1; an all-ones string grows by one bit
IncBits(bits) ==
    IF \A i \in 1..Len(bits) : bits[i] = 1 THEN <<1>> \o Zeros(Len(bits))
    ELSE LET z == CHOOSE i \in 1..Len(bits) :
                      bits[i] = 0 /\ \A j \in (i + 1)..Len(bits) : bits[j] = 1
         IN  SubSeq(bits, 1, z - 1) \o <<1>> \o Zeros(Len(bits) - z)

\* the next k limbs of the binary expansion of r/q (0 <= r < q), and the
\* remainder left
RECURSIVE Expand(_, _, _)
Expand(r, q, k) ==
    IF k = 0 THEN [bits |-> <<>>, rem |-> r]
    ELSE LET rest == Expand((r * Base) % q, q, k - 1)
         IN  [bits |-> FixedBits((r * Base) \div q, ChunkWidth) \o rest.bits,
              rem  |-> rest.rem]

\* a * 2^s with a * 2^s >= q, for 0 < a < q
RECURSIVE ScaleUp(_, _, _)
ScaleUp(a, q, s) == IF a >= q THEN [a |-> a, q |-> q, e |-> -s] ELSE ScaleUp(2 * a, q, s + 1)

\* q * 2^t with a < 2 * q * 2^t, for a >= q
RECURSIVE ScaleDown(_, _, _)
ScaleDown(a, q, t) == IF a < 2 * q THEN [a |-> a, q |-> q, e |-> t] ELSE ScaleDown(a, 2 * q, t + 1)

\* round a bit string to Precision bits (nearest, ties to even)
RoundBits(bits, exp) ==
    IF Len(bits) <= Precision THEN [mant |-> bits, exp |-> exp]
    ELSE LET kept   == SubSeq(bits, 1, Precision)
             guard  == bits[Precision + 1]
             sticky == \E i \in (Precision + 2)..Len(bits) : bits[i] = 1
             up     == guard = 1 /\ (sticky \/ kept[Precision] = 1)
         IN  [mant |-> IF up THEN IncBits(kept) ELSE kept,
              exp  |-> exp + (Len(bits) - Precision)]

\* the double nearest to p / q (q > 0): a float literal, or int / int
FloatOfRatio(p, q) ==
    IF p = 0 THEN [sign |-> 1, mant |-> <<>>, exp |-> 0]
    ELSE LET n  == IF Abs(p) >= q THEN ScaleDown(Abs(p), q, 0) ELSE ScaleUp(Abs(p), q, 0)
             x  == Expand(n.a - n.q, n.q, (Precision - 1) \div ChunkWidth)
             m  == <<1>> \o x.bits
             up == 2 * x.rem > n.q \/ (2 * x.rem = n.q /\ m[Precision] = 1)
         IN  [sign |-> Sign(p),
              mant |-> IF up THEN IncBits(m) ELSE m,
              exp  |-> n.e - (Precision - 1)]

\* a bit string as limbs, least significant first
Limbs(bits) ==
    LET L == Len(bits)
        lo(k) == IF L - ChunkWidth * k + 1 < 1 THEN 1 ELSE L - ChunkWidth * k + 1
    IN  [k \in 1..((L + ChunkWidth - 1) \div ChunkWidth) |->
            BitsToInt(SubSeq(bits, lo(k), L - ChunkWidth * (k - 1)))]

RECURSIVE JoinLimbs(_, _)
JoinLimbs(limbs, k) ==
    IF k = 0 THEN <<>> ELSE FixedBits(limbs[k], ChunkWidth) \o JoinLimbs(limbs, k - 1)

\* limbs * n for 0 <= n < Base, by long multiplication
RECURSIVE MulLimbs(_, _, _, _)
MulLimbs(limbs, n, i, carry) ==
    IF i > Len(limbs) THEN (IF carry = 0 THEN <<>> ELSE <<carry>>)
    ELSE <<(limbs[i] * n + carry) % Base>>
            \o MulLimbs(limbs, n, i + 1, (limbs[i] * n + carry) \div Base)

MulBits(bits, n) ==
    LET product == MulLimbs(Limbs(bits), n, 1, 0)
    IN  StripZeros(JoinLimbs(product, Len(product)))

\* int * float: the int converts exactly, the product is rounded once
IntTimesFloat(n, d) ==
    IF n = 0 \/ d.mant = <<>> THEN [sign |-> 1, mant |-> <<>>, exp |-> 0]
    ELSE LET r == RoundBits(MulBits(d.mant, Abs(n)), d.exp)
         IN  [sign |-> Sign(n) * d.sign, mant |-> r.mant, exp |-> r.exp]

\* int(x) of a float: truncation toward zero
IntOfFloat(d) ==
    IF d.mant = <<>> THEN 0
    ELSE IF d.exp >= 0 THEN d.sign * BitsToInt(d.mant) * Pow2(d.exp)
    ELSE IF Len(d.mant) + d.exp <= 0 THEN 0
    ELSE d.sign * BitsToInt(SubSeq(d.mant, 1, Len(d.mant) + d.exp))

\* a < b on doubles
LexLess(a, b) ==
    \E i \in 1..Len(a) : a[i] < b[i] /\ \A j \in 1..(i - 1) : a[j] = b[j]

\* the same double with exactly Precision mantissa bits
Normal(d) ==
    IF Len(d.mant) > Precision
    THEN [d EXCEPT !.mant = SubSeq(d.mant, 1, Precision), !.exp = d.exp + (Len(d.mant) - Precision)]
    ELSE [d EXCEPT !.mant = d.mant \o [i \in 1..(Precision - Len(d.mant)) |-> 0],
                   !.exp = d.exp - (Precision - Len(d.mant))]

MagnitudeLess(a, b) ==
    LET x == Normal(a)
        y == Normal(b)
    IN  x.exp < y.exp \/ (x.exp = y.exp /\ LexLess(x.mant, y.mant))

FloatLess(a, b) ==
    IF a.mant = <<>> THEN b.mant # <<>> /\ b.sign = 1
    ELSE IF b.mant = <<>> THEN a.sign = -1
    ELSE IF a.sign # b.sign THEN a.sign < b.sign
    ELSE IF a.sign = 1 THEN MagnitudeLess(a, b)
    ELSE MagnitudeLess(b, a)

\* ------------------------------------------------------------------------
\* Program constants
\* ------------------------------------------------------------------------
n_colors == 3
SliderMinimum == 20
SliderMaximum == 80
SliderValue == 40

\* random_state=42 of KMeans(...); <<>> would be random_state=None
random_state_none == <<>>
random_state == <<42>>

\* the float literal 0.6 of int(width * 0.6)
RoiWidthFraction == FloatOfRatio(6, 10)

\* self.roi_size = 0.4 in __init__
InitialRoiSize == FloatOfRatio(4, 10)

\* ------------------------------------------------------------------------
\* The reference palettes, in declaration order (dicts keep insertion order)
\* ------------------------------------------------------------------------
colors_image == <<
    [name |-> "Red",    rgb |-> <<255, 0, 0>>],
    [name |-> "Green",  rgb |-> <<0, 255, 0>>],
    [name |-> "Blue",   rgb |-> <<0, 0, 255>>],
    [name |-> "White",  rgb |-> <<255, 255, 255>>],
    [name |-> "Black",  rgb |-> <<0, 0, 0>>],
    [name |-> "Yellow", rgb |-> <<255, 255, 0>>],
    [name |-> "Purple", rgb |-> <<128, 0, 128>>],
    [name |-> "Orange", rgb |-> <<255, 165, 0>>],
    [name |-> "Pink",   rgb |-> <<255, 192, 203>>],
    [name |-> "Gray",   rgb |-> <<128, 128, 128>>],
    [name |-> "Brown",  rgb |-> <<165, 42, 42>>],
    [name |-> "Navy",   rgb |-> <<0, 0, 128>>],
    [name |-> "Teal",   rgb |-> <<0, 128, 128>>],
    [name |-> "Maroon", rgb |-> <<128, 0, 0>>] >>

colors_i2 == colors_image \o <<
    [name |-> "Light Blue", rgb |-> <<173, 216, 230>>],
    [name |-> "Dark Green", rgb |-> <<0, 100, 0>>],
    [name |-> "Beige",      rgb |-> <<245, 245, 220>>],
    [name |-> "Burgundy",   rgb |-> <<128, 0, 32>>],
    [name |-> "Khaki",      rgb |-> <<240, 230, 140>>],
    [name |-> "Olive",      rgb |-> <<128, 128, 0>>] >>

Variants == {"image", "i2"}

colors(v) == IF v = "i2" THEN colors_i2 ELSE colors_image

\* sum((a - b) ** 2 for a, b in zip(rgb, color_rgb))
distance_first_two(rgb, color_rgb) ==
    (rgb[1] - color_rgb[1]) * (rgb[1] - color_rgb[1])
  + (rgb[2] - color_rgb[2]) * (rgb[2] - color_rgb[2])

distance(rgb, color_rgb) ==
    (rgb[1] - color_rgb[1]) * (rgb[1] - color_rgb[1])
  + (rgb[2] - color_rgb[2]) * (rgb[2] - color_rgb[2])
  + (rgb[3] - color_rgb[3]) * (rgb[3] - color_rgb[3])

\* distance < min_distance; min_distance starts at float('inf')
closer_or_equal(d, min_distance) == min_distance.inf \/ d <= min_distance.value

closer(d, min_distance) == min_distance.inf \/ d < min_distance.value

RECURSIVE name_loop(_, _, _, _, _)
name_loop(palette, rgb, i, min_distance, closest_color) ==
    IF i > Len(palette) THEN closest_color
    ELSE LET d == distance(rgb, palette[i].rgb)
         IN  IF closer(d, min_distance)
             THEN name_loop(palette, rgb, i + 1, [inf |-> FALSE, value |-> d], palette[i].name)
             ELSE name_loop(palette, rgb, i + 1, min_distance, closest_color)

rgb_to_color_name(v, rgb) ==
    name_loop(colors(v), rgb, 1, [inf |-> TRUE, value |-> 0], "Unknown")

\* ------------------------------------------------------------------------
\* Images.  An image is its shape; NoImage is None.  The files the user can
\* pick decode to the images of at most MaxHeight x MaxWidth pixels, whose
\* pixels repeat three colours in row-major order.
\* ------------------------------------------------------------------------
NoImage == [height |-> 0, width |-> 0]

Images == [height : 1..MaxHeight, width : 1..MaxWidth]

PixelColors == << <<255, 0, 0>>, <<0, 0, 255>>, <<0, 0, 0>> >>

\* image[r, c], rows and columns from 0
Pixel(image, r, c) == PixelColors[((r * image.width + c) % Len(PixelColors)) + 1]

\* the values the slider emits in the model: its ends and its initial value
SliderValues == {SliderMinimum, SliderValue, SliderMaximum}

\* values a caller of update_roi that is not the slider may pass
CallerValues == {-20, 0, 101, 150}

\* shapes for the geometry of the region alone
RegionSizes == {1, 2, 3, 5, 50, 100, 1000}

RegionImages == [height : RegionSizes, width : RegionSizes]

\* value / 100, for every value the model passes to update_roi
roi_size_of[value \in (SliderMinimum..SliderMaximum) \cup CallerValues] ==
    FloatOfRatio(value, 100)

Fractions ==
    {roi_size_of[value] : value \in (SliderMinimum..SliderMaximum) \cup CallerValues}
        \cup {InitialRoiSize, RoiWidthFraction}

\* int(n * d) for an image dimension n and a float d
int_of_product[n \in (1..MaxHeight) \cup (1..MaxWidth) \cup RegionSizes, d \in Fractions] ==
    IntOfFloat(IntTimesFloat(n, d))

\* ------------------------------------------------------------------------
\* get_clothing_region (i2.py)
\* ------------------------------------------------------------------------
\* the indices a[start:stop] selects on an axis of length n
SliceIndices(start, stop, n) ==
    LET clip(x) == IF x < 0 THEN (IF x + n < 0 THEN 0 ELSE x + n)
                   ELSE (IF x > n THEN n ELSE x)
    IN  clip(start)..(clip(stop) - 1)

\* int(height * self.roi_size)
roi_height(image, roi_size) == int_of_product[image.height, roi_size]

\* int(width * 0.6)
roi_width(image) == int_of_product[image.width, RoiWidthFraction]

roi_x(image) == (image.width - roi_width(image)) \div 2

roi_y(image, roi_size) == (image.height - roi_height(image, roi_size)) \div 2

\* the mask is 255 on rows x cols and 0 elsewhere
get_clothing_region(image, roi_size) ==
    [rows |-> SliceIndices(roi_y(image, roi_size),
                           roi_y(image, roi_size) + roi_height(image, roi_size),
                           image.height),
     cols |-> SliceIndices(roi_x(image), roi_x(image) + roi_width(image), image.width)]

NoMask == [rows |-> {}, cols |-> {}]

\* the elements of a set of integers in increasing order
RECURSIVE Ascending(_)
Ascending(S) ==
    IF S = {} THEN <<>>
    ELSE LET m == CHOOSE x \in S : \A y \in S : x <= y
         IN  <<m>> \o Ascending(S \ {m})

RECURSIVE Flatten(_)
Flatten(seqs) == IF seqs = <<>> THEN <<>> ELSE Head(seqs) \o Flatten(Tail(seqs))

\* image[mask == 255]: the masked pixels in row-major order
MaskedPixels(image, mask) ==
    LET rs == Ascending(mask.rows)
        cs == Ascending(mask.cols)
    IN  Flatten([i \in 1..Len(rs) |-> [j \in 1..Len(cs) |-> Pixel(image, rs[i], cs[j])]])

\* image.reshape(-1, 3): every pixel in row-major order
AllPixels(image) ==
    MaskedPixels(image, [rows |-> 0..(image.height - 1), cols |-> 0..(image.width - 1)])

\* ------------------------------------------------------------------------
\* sklearn's KMeans.  Its code is not part of the repository: fit is an
\* arbitrary labelling of the samples, the same on every call for an int
\* random_state (the stream the seed fixes), and drawn from the process-wide
\* generator for random_state=None.  A stream gives sample i its label.
\* ------------------------------------------------------------------------
Streams == [1..MaxSamples -> 0..(n_colors - 1)]

RECURSIVE SumOver(_, _, _)
SumOver(X, idx, ch) ==
    IF idx = {} THEN 0
    ELSE LET i == CHOOSE x \in idx : TRUE
         IN  X[i][ch] + SumOver(X, idx \ {i}, ch)

\* cluster_centers_[c].astype(int): the mean of the members, truncated; a
\* cluster left without members stays at the data point it was seeded with
cluster_center(X, labels, c) ==
    LET members == {i \in 1..Len(X) : labels[i] = c}
    IN  IF members = {} THEN X[((labels[1] + c) % Len(X)) + 1]
        ELSE [ch \in 1..3 |-> SumOver(X, members, ch) \div Cardinality(members)]

KMeans_fit(X, n_clusters, stream) ==
    IF Len(X) < n_clusters
    THEN [raised |-> "ValueError", labels |-> <<>>, cluster_centers |-> <<>>]
    ELSE LET labels == [i \in 1..Len(X) |-> stream[i]]
         IN  [raised |-> "None",
              labels |-> labels,
              cluster_centers |-> [c \in 1..n_clusters |-> cluster_center(X, labels, c - 1)]]

\* ------------------------------------------------------------------------
\* detect_colors
\* ------------------------------------------------------------------------
\* sum(labels == i)
CountLabel(labels, i) == Cardinality({j \in 1..Len(labels) : labels[j] = i})

\* (count / total) * 100
percentage_of[count \in 0..MaxSamples, total \in 1..MaxSamples] ==
    IntTimesFloat(100, FloatOfRatio(count, total))

\* (sum(labels == i) / len(labels)) * 100
percentage(count, total) == percentage_of[count, total]

percentages_short(labels, n) ==
    [i \in 1..(n - 1) |-> percentage(CountLabel(labels, i - 1), Len(labels))]

\* [... for i in range(n_colors)]
percentages(labels, n) ==
    [i \in 1..n |-> percentage(CountLabel(labels, i - 1), Len(labels))]

\* list(zip(colors, percentages)): as long as the shorter of the two
zip(cs, ps) ==
    [i \in 1..(IF Len(cs) < Len(ps) THEN Len(cs) ELSE Len(ps)) |->
        [color |-> cs[i], percentage |-> ps[i]]]

\* does a sort before b?  key=lambda x: x[1]
KeyBefore(a, b, reverse) ==
    IF reverse THEN FloatLess(b.percentage, a.percentage)
    ELSE FloatLess(a.percentage, b.percentage)

\* list.sort is stable: x, the later element, goes behind its equals
RECURSIVE Insert(_, _, _)
Insert(sorted, x, reverse) ==
    IF sorted = <<>> THEN <<x>>
    ELSE IF KeyBefore(x, Head(sorted), reverse) THEN <<x>> \o sorted
    ELSE <<Head(sorted)>> \o Insert(Tail(sorted), x, reverse)

RECURSIVE Sort(_, _)
Sort(seq, reverse) ==
    IF seq = <<>> THEN <<>>
    ELSE Insert(Sort(SubSeq(seq, 1, Len(seq) - 1), reverse), seq[Len(seq)], reverse)

sort_ascending(color_info) == Sort(color_info, FALSE)

\* color_info.sort(key=lambda x: x[1], reverse=True)
sort_reverse(color_info) == Sort(color_info, TRUE)

NotRun == [raised |-> "None", labels |-> <<>>, color_info |-> <<>>, clustered |-> FALSE]

\* the body of detect_colors from the KMeans call on (both files)
cluster_and_rank(pixels, stream) ==
    LET fit == KMeans_fit(pixels, n_colors, stream)
    IN  IF fit.raised # "None"
        THEN [raised |-> fit.raised, labels |-> <<>>, color_info |-> <<>>, clustered |-> TRUE]
        ELSE [raised |-> "None",
              labels |-> fit.labels,
              color_info |-> sort_reverse(zip(fit.cluster_centers,
                                              percentages(fit.labels, n_colors))),
              clustered |-> TRUE]

\* image.py: no check for an empty pixel array
detect_colors_image(pixels, stream) == cluster_and_rank(pixels, stream)

\* detect_colors of i2.py without its check for an empty array
detect_colors_unguarded(roi_pixels, stream) == cluster_and_rank(roi_pixels, stream)

\* i2.py: if len(roi_pixels) == 0: return []
detect_colors_i2(roi_pixels, stream) ==
    IF Len(roi_pixels) = 0 THEN NotRun
    ELSE cluster_and_rank(roi_pixels, stream)

\* ------------------------------------------------------------------------
\* display_color_info: the text of color_label
\* ------------------------------------------------------------------------
InfoLines(v, color_info) ==
    [i \in 1..Len(color_info) |->
        [color_name |-> rgb_to_color_name(v, color_info[i].color),
         color      |-> color_info[i].color,
         percentage |-> color_info[i].percentage]]

display_color_info(v, color_info) ==
    IF v = "i2" /\ color_info = <<>>
    THEN [text |-> "No clothing colors detected!", info |-> <<>>]
    ELSE [text |-> IF v = "i2" THEN "Detected Clothing Colors:" ELSE "Detected Colors:",
          info |-> InfoLines(v, color_info)]

\* self.color_label.setText(f"Error: {str(e)}")
ErrorLabel(e) == [text |-> "Error: " \o e, info |-> <<>>]

InitialLabel(v) ==
    [text |-> IF v = "i2" THEN "Detected Clothing Colors will appear here"
              ELSE "Detected Colors will appear here",
     info |-> <<>>]

\* ------------------------------------------------------------------------
\* The window
\* ------------------------------------------------------------------------
VARIABLES
    variant,          \* which program runs: "image" (image.py) or "i2" (i2.py)
    roi_size,         \* self.roi_size (i2.py)
    current_image,    \* self.current_image (i2.py)
    color_label,      \* the text of self.color_label
    handler,          \* the handler that ran last
    outcome,          \* how it ended: "returned", "caught" (the except of
                      \* upload_image) or "unhandled" (the exception left the slot)
    raised,           \* the exception it raised, "None" if none
    stages,           \* the steps of the pipeline it ran
    image,            \* locals of its process_image: the image analysed,
    mask,             \*   the mask of get_clothing_region,
    roi_pixels,       \*   the samples (pixels in image.py),
    labels,           \*   kmeans.labels_,
    dominant_colors,  \*   the list detect_colors returned
    seeded,           \* the stream random_state=42 fixes
    np_random,        \* the process-wide generator random_state=None draws from
    reference,        \* an earlier analysis, remembered to compare later ones with
    rgb,              \* the argument of a call of rgb_to_color_name
    closest_color     \*   and what it returned

vars == <<variant, roi_size, current_image, color_label, handler, outcome, raised,
          stages, image, mask, roi_pixels, labels, dominant_colors, seeded,
          np_random, reference, rgb, closest_color>>

NoReference == [set |-> FALSE]

Init ==
    /\ variant \in Variants
    /\ roi_size = InitialRoiSize
    /\ current_image = NoImage
    /\ color_label = InitialLabel(variant)
    /\ handler = "__init__"
    /\ outcome = "returned"
    /\ raised = "None"
    /\ stages = {}
    /\ image = NoImage
    /\ mask = NoMask
    /\ roi_pixels = <<>>
    /\ labels = <<>>
    /\ dominant_colors = <<>>
    /\ seeded \in Streams
    /\ np_random = seeded
    /\ reference = NoReference
    /\ rgb = <<0, 0, 0>>
    /\ closest_color = ""

\* the handler ran no process_image
NoAnalysis ==
    /\ stages' = {}
    /\ image' = NoImage
    /\ mask' = NoMask
    /\ roi_pixels' = <<>>
    /\ labels' = <<>>
    /\ dominant_colors' = <<>>

\* the stream a KMeans(random_state=...) of this call draws its labels from
Draws == IF random_state = random_state_none THEN Streams ELSE {seeded}

\* process_image of i2.py on img: fills the locals; the label is only set
\* when detect_colors returned
process_image_i2(img, size, stream) ==
    LET m == get_clothing_region(img, size)
        px == MaskedPixels(img, m)
        d == detect_colors_i2(px, stream)
    IN  /\ Len(px) <= MaxSamples
        /\ image' = img
        /\ mask' = m
        /\ roi_pixels' = px
        /\ labels' = d.labels
        /\ dominant_colors' = d.color_info
        /\ raised' = d.raised
        /\ stages' = {"mask", "sample"} \cup (IF d.clustered THEN {"cluster"} ELSE {})
                        \cup (IF d.raised = "None" THEN {"display"} ELSE {})
        /\ np_random' = IF d.clustered /\ random_state = random_state_none
                        THEN stream ELSE np_random

\* process_image of image.py on a decoded image
process_image_image(img, stream) ==
    LET px == AllPixels(img)
        d == detect_colors_image(px, stream)
    IN  /\ Len(px) <= MaxSamples
        /\ image' = img
        /\ mask' = NoMask
        /\ roi_pixels' = px
        /\ labels' = d.labels
        /\ dominant_colors' = d.color_info
        /\ raised' = d.raised
        /\ stages' = {"sample", "cluster"} \cup (IF d.raised = "None" THEN {"display"} ELSE {})
        /\ np_random' = IF random_state = random_state_none THEN stream ELSE np_random

\* upload_image, the dialog cancelled: file_name is empty
UploadCancelled ==
    /\ handler' = "upload_image"
    /\ outcome' = "returned"
    /\ raised' = "None"
    /\ NoAnalysis
    /\ UNCHANGED <<variant, roi_size, current_image, color_label, seeded, np_random,
                   reference, rgb, closest_color>>

\* upload_image on a file cv2.imread cannot decode: i2.py raises ValueError,
\* image.py passes None to cv2.cvtColor, which raises cv2.error
UploadUnreadable ==
    /\ handler' = "upload_image"
    /\ outcome' = "caught"
    /\ raised' = IF variant = "i2" THEN "ValueError" ELSE "cv2.error"
    /\ color_label' = ErrorLabel(raised')
    /\ NoAnalysis
    /\ UNCHANGED <<variant, roi_size, current_image, seeded, np_random, reference,
                   rgb, closest_color>>

\* upload_image of i2.py: self.current_image = image, then process_image
\* inside the try
UploadImageI2(img) ==
    /\ variant = "i2"
    /\ handler' = "upload_image"
    /\ current_image' = img
    /\ \E stream \in Draws : process_image_i2(img, roi_size, stream)
    /\ outcome' = IF raised' = "None" THEN "returned" ELSE "caught"
    /\ color_label' = IF raised' = "None" THEN display_color_info(variant, dominant_colors')
                      ELSE ErrorLabel(raised')
    /\ UNCHANGED <<variant, roi_size, seeded, reference, rgb, closest_color>>

\* upload_image of image.py: process_image(file_name) inside the try
UploadImageWhole(img) ==
    /\ variant = "image"
    /\ handler' = "upload_image"
    /\ \E stream \in Draws : process_image_image(img, stream)
    /\ outcome' = IF raised' = "None" THEN "returned" ELSE "caught"
    /\ color_label' = IF raised' = "None" THEN display_color_info(variant, dominant_colors')
                      ELSE ErrorLabel(raised')
    /\ UNCHANGED <<variant, roi_size, current_image, seeded, reference, rgb, closest_color>>

\* update_roi(value): no try around process_image
update_roi(value) ==
    /\ variant = "i2"
    /\ handler' = "update_roi"
    /\ roi_size' = roi_size_of[value]
    /\ IF current_image # NoImage
       THEN /\ \E stream \in Draws : process_image_i2(current_image, roi_size', stream)
            /\ outcome' = IF raised' = "None" THEN "returned" ELSE "unhandled"
            /\ color_label' = IF raised' = "None"
                              THEN display_color_info(variant, dominant_colors')
                              ELSE color_label
       ELSE /\ NoAnalysis
            /\ outcome' = "returned"
            /\ raised' = "None"
            /\ UNCHANGED <<color_label, np_random>>
    /\ UNCHANGED <<variant, current_image, seeded, reference, rgb, closest_color>>

Next ==
    \/ UploadCancelled
    \/ UploadUnreadable
    \/ \E img \in Images : UploadImageI2(img)
    \/ \E img \in Images : UploadImageWhole(img)
    \/ \E value \in SliderValues : update_roi(value)

Spec == Init /\ [][Next]_vars

\* ------------------------------------------------------------------------
\* update_roi called by code other than the slider, with any value
\* ------------------------------------------------------------------------
NextCaller ==
    \/ Next
    \/ \E value \in CallerValues : update_roi(value)

SpecCaller == Init /\ [][NextCaller]_vars

\* ------------------------------------------------------------------------
\* Two analyses of the same input: the observer remembers one analysis (its
\* input and what it gave) and later ones are compared with it
\* ------------------------------------------------------------------------
Analysed == "sample" \in stages

AnalysisInput == [image |-> image, roi_size |-> roi_size]

AnalysisOutput == [raised |-> raised, dominant_colors |-> dominant_colors]

Remember ==
    /\ Analysed
    /\ ~reference.set
    /\ reference' = [set |-> TRUE, handler |-> handler,
                     input |-> AnalysisInput, output |-> AnalysisOutput]
    /\ UNCHANGED <<variant, roi_size, current_image, color_label, handler, outcome,
                   raised, stages, image, mask, roi_pixels, labels, dominant_colors,
                   seeded, np_random, rgb, closest_color>>

\* the images uploaded while observing: the two tallest of full width, whose
\* region is empty, too small to cluster or clustered depending on the
\* slider, and the strip of n_colors pixels image.py can cluster
ObservedImages ==
    {img \in Images : img.width = MaxWidth /\ img.height >= MaxHeight - 1}
        \cup {[height |-> n_colors, width |-> 1]}

NextObserved ==
    \/ UploadCancelled
    \/ UploadUnreadable
    \/ \E img \in ObservedImages : UploadImageI2(img)
    \/ \E img \in ObservedImages : UploadImageWhole(img)
    \/ \E value \in SliderValues : update_roi(value)
    \/ Remember

SpecObserved == Init /\ [][NextObserved]_vars

\* ------------------------------------------------------------------------
\* get_clothing_region alone, on larger shapes and every slider position
\* ------------------------------------------------------------------------
InitRegion ==
    /\ variant = "i2"
    /\ roi_size \in {roi_size_of[value] : value \in SliderMinimum..SliderMaximum}
    /\ current_image \in RegionImages
    /\ color_label = InitialLabel(variant)
    /\ handler = "__init__"
    /\ outcome = "returned"
    /\ raised = "None"
    /\ stages = {}
    /\ image = NoImage
    /\ mask = NoMask
    /\ roi_pixels = <<>>
    /\ labels = <<>>
    /\ dominant_colors = <<>>
    /\ seeded = [i \in 1..MaxSamples |-> 0]
    /\ np_random = seeded
    /\ reference = NoReference
    /\ rgb = <<0, 0, 0>>
    /\ closest_color = ""

GetClothingRegion ==
    /\ stages = {}
    /\ handler' = "get_clothing_region"
    /\ image' = current_image
    /\ mask' = get_clothing_region(current_image, roi_size)
    /\ stages' = {"mask"}
    /\ UNCHANGED <<variant, roi_size, current_image, color_label, outcome, raised,
                   roi_pixels, labels, dominant_colors, seeded, np_random, reference,
                   rgb, closest_color>>

SpecRegion == InitRegion /\ [][GetClothingRegion]_vars

\* ------------------------------------------------------------------------
\* rgb_to_color_name alone, on a grid of RGB triples
\* ------------------------------------------------------------------------
PaletteChannels == {colors_i2[i].rgb[ch] : i \in 1..Len(colors_i2), ch \in 1..3}

\* halfway between two palette values, where two entries are equally near
TieChannels == {16, 64}

Channels ==
    PaletteChannels \cup TieChannels \cup {(255 * i) \div GridPoints : i \in 0..GridPoints}

InitNamer ==
    /\ variant \in Variants
    /\ rgb \in Channels \X Channels \X Channels
    /\ closest_color = ""
    /\ roi_size = InitialRoiSize
    /\ current_image = NoImage
    /\ color_label = InitialLabel(variant)
    /\ handler = "__init__"
    /\ outcome = "returned"
    /\ raised = "None"
    /\ stages = {}
    /\ image = NoImage
    /\ mask = NoMask
    /\ roi_pixels = <<>>
    /\ labels = <<>>
    /\ dominant_colors = <<>>
    /\ seeded = [i \in 1..MaxSamples |-> 0]
    /\ np_random = seeded
    /\ reference = NoReference

NameColor ==
    /\ closest_color = ""
    /\ handler' = "rgb_to_color_name"
    /\ closest_color' = rgb_to_color_name(variant, rgb)
    /\ UNCHANGED <<variant, roi_size, current_image, color_label, outcome, raised,
                   stages, image, mask, roi_pixels, labels, dominant_colors, seeded,
                   np_random, reference, rgb>>

SpecNamer == InitNamer /\ [][NameColor]_vars

\* ========================================================================
\* Properties
\* ========================================================================

\* C1: the list detect_colors returns is ordered by non-increasing
\* percentage: no entry has a smaller percentage than the entry after it.
RankedByPercentage ==
    \A i \in 1..(Len(dominant_colors) - 1) :
        ~FloatLess(dominant_colors[i].percentage, dominant_colors[i + 1].percentage)

\* C1 witness: a clustering whose cluster 0 is smaller than its cluster 1
\* came back with the larger share first.
RankedWitness ==
    /\ variant = "image"
    /\ Len(dominant_colors) = n_colors
    /\ CountLabel(labels, 0) < CountLabel(labels, 1)
    /\ FloatLess(dominant_colors[2].percentage, dominant_colors[1].percentage)

RECURSIVE SumSeq(_)
SumSeq(q) == IF q = <<>> THEN 0 ELSE Head(q) + SumSeq(Tail(q))

SmallSampleSetsAreClustered ==
    (Analysed /\ 0 < Len(roi_pixels) /\ Len(roi_pixels) < n_colors) =>
        /\ raised = "None"
        /\ Len(dominant_colors) = Len(roi_pixels)

\* the slider position behind a region fraction
ValueOf(size) == CHOOSE value \in SliderMinimum..SliderMaximum : roi_size_of[value] = size

\* C5: the mask is true exactly on rows [roi_y, roi_y + roi_height) and
\* columns [roi_x, roi_x + roi_width), with roi_width = floor(0.6 * W),
\* roi_height = floor(f * H), roi_x = (W - roi_width) div 2 and
\* roi_y = (H - roi_height) div 2, f being value / 100.
RegionIsFloorOfFraction ==
    "mask" \in stages =>
        LET H == image.height
            W == image.width
            w == (6 * W) \div 10
            h == (ValueOf(roi_size) * H) \div 100
            x == (W - w) \div 2
            y == (H - h) \div 2
        IN  /\ mask.rows = {r \in 0..(H - 1) : y <= r /\ r < y + h}
            /\ mask.cols = {c \in 0..(W - 1) : x <= c /\ c < x + w}

SquaredDistance(a, b) ==
    (a[1] - b[1]) * (a[1] - b[1]) + (a[2] - b[2]) * (a[2] - b[2])
        + (a[3] - b[3]) * (a[3] - b[3])

\* C6: rgb_to_color_name returns the name of a palette entry at the least
\* squared distance from its argument, the first declared of those at that
\* distance, and never "Unknown".
NearestFirstDeclared ==
    closest_color # "" =>
        LET palette == colors(variant)
        IN  /\ closest_color # "Unknown"
            /\ \E i \in 1..Len(palette) :
                   /\ palette[i].name = closest_color
                   /\ \A j \in 1..Len(palette) :
                          SquaredDistance(rgb, palette[i].rgb)
                              <= SquaredDistance(rgb, palette[j].rgb)
                   /\ \A j \in 1..(i - 1) :
                          SquaredDistance(rgb, palette[i].rgb)
                              < SquaredDistance(rgb, palette[j].rgb)

\* C6 witness: a triple equally near two entries of the extended palette and
\* nearer to them than to any other was given the name declared first.
NearestWitness ==
    /\ variant = "i2"
    /\ closest_color # ""
    /\ \E i, j \in 1..Len(colors_i2) :
           /\ i < j
           /\ colors_i2[i].name = closest_color
           /\ SquaredDistance(rgb, colors_i2[i].rgb) = SquaredDistance(rgb, colors_i2[j].rgb)
           /\ \A k \in 1..Len(colors_i2) :
                  SquaredDistance(rgb, colors_i2[i].rgb) <= SquaredDistance(rgb, colors_i2[k].rgb)

\* C7: applied to the RGB of a palette entry, rgb_to_color_name returns the
\* name of that entry.
PaletteEntriesNameThemselves ==
    closest_color # "" =>
        \A i \in 1..Len(colors(variant)) :
            rgb = colors(variant)[i].rgb => closest_color = colors(variant)[i].name

\* C7 witness: the RGB of Navy, which differs from Black in one channel
\* only, was named.
ReflexiveWitness ==
    /\ closest_color = "Navy"
    /\ rgb = <<0, 0, 128>>

Zero == FloatOfRatio(0, 1)

One == FloatOfRatio(1, 1)

SameInputSameOutput ==
    (reference.set /\ Analysed /\ AnalysisInput = reference.input) =>
        AnalysisOutput = reference.output

\* C9 witness: a slider change re-analysed the input of a remembered upload
\* and clustering returned a list.
SameInputWitness ==
    /\ reference.set
    /\ reference.handler = "upload_image"
    /\ handler = "update_roi"
    /\ Analysed
    /\ AnalysisInput = reference.input
    /\ dominant_colors # <<>>

\* C10: an upload that ends in the except branch leaves current_image as it
\* was.
FailedUploadKeepsImage ==
    [][(handler' = "upload_image" /\ outcome' = "caught") => current_image' = current_image]_vars
====
